---- MODULE Spec2Model ----
(***************************************************************************)
(* Model of mirdata's generic Dataset registry (src/mirdata/dataset.py):   *)
(* the lazily cached index and metadata, track lookup with path            *)
(* resolution, bulk load and checksum validation.                          *)
(*                                                                         *)
(* A path is a record [abs, parts]; os.path.join is modelled by what it    *)
(* does (an absolute right operand discards the left one).  A parsed JSON  *)
(* object is a sequence of items in file order, so that key order and      *)
(* in-place mutation of the cached index are both observable.              *)
(***************************************************************************)
EXTENDS Integers, Sequences, FiniteSets, TLC

\* Number of Dataset operations explored per behaviour.
MaxOps == 3

\* Number of file-system changes explored per behaviour.
MaxFsChanges == 1

(***************************************************************************)
(* Paths                                                                   *)
(***************************************************************************)
Rel(name) == [abs |-> FALSE, parts |-> <<name>>]

AbsHome == [abs |-> TRUE, parts |-> <<"d">>]

RelHome == [abs |-> FALSE, parts |-> <<"d">>]

DataHomes == {AbsHome, RelHome}

\* os.path.join(a, b)
join(a, b) ==
    IF b.abs THEN b ELSE [abs |-> a.abs, parts |-> a.parts \o b.parts]

(***************************************************************************)
(* Index files.  An item is [key, kind, body]; kind "entry" is a track     *)
(* entry {role: [relative_path, checksum]}, kind "map" a mapping of track  *)
(* ids to entries, kind "str" a string value.                              *)
(***************************************************************************)
NullSum == "null"

Cell(role, name, sum) == [role |-> role, path |-> Rel(name), sum |-> sum]

TrackEntries ==
    << [key |-> "t1", kind |-> "entry",
        body |-> << Cell("audio", "a.wav", "c1"), Cell("beats", "a.txt", NullSum) >>],
       [key |-> "t2", kind |-> "entry",
        body |-> << Cell("audio", "b.wav", "c1") >>] >>

VersionItem == [key |-> "version", kind |-> "str", body |-> << >>]

TracksItem == [key |-> "tracks", kind |-> "map", body |-> TrackEntries]

\* index of mirdata <= 0.3.0b0: {track_id: entry}
FlatIndex == TrackEntries

\* index in the versioned format: {"version": ..., "tracks": {...}}
NestedIndex == << VersionItem, TracksItem >>

TracksOnlyIndex == << TracksItem >>

VersionOnlyIndex == << VersionItem >>

NoFile == [exists |-> FALSE, json |-> << >>]

IndexFiles ==
    {NoFile} \cup
    { [exists |-> TRUE, json |-> j] :
        j \in {FlatIndex, NestedIndex, TracksOnlyIndex, VersionOnlyIndex} }

\* Files of the dataset directory, by the name the index gives them.
FileNames == {"a.wav", "a.txt", "b.wav"}

Contents == {"absent", "c1", "c2"}

\* The dataset directory before any operation: nothing downloaded yet, or
\* every file of the index present with the digest the index stores.
FileStates == { [n \in FileNames |-> "absent"], [n \in FileNames |-> "c1"] }

\* The metadata file of the dataset: absent, or holding rows for some ids.
MetaFiles ==
    { [exists |-> FALSE, ids |-> {}],
      [exists |-> TRUE, ids |-> {"t1", "t2"}],
      [exists |-> TRUE, ids |-> {"t1"}] }

LookupIds == {"t1", "t2", "zz"}

(***************************************************************************)
(* Helpers on JSON objects                                                 *)
(***************************************************************************)
Keys(obj) == [i \in 1..Len(obj) |-> obj[i].key]

KeySet(obj) == {obj[i].key : i \in 1..Len(obj)}

Item(obj, k) == obj[CHOOSE i \in 1..Len(obj) : obj[i].key = k]

HasKeys(obj, ks) == ks \subseteq KeySet(obj)

\* The tracks mapping of an index, as scripts/update_index.py reads it.
TracksOf(json) ==
    IF "tracks" \in KeySet(json) THEN Item(json, "tracks").body ELSE json

VARIABLES
    dataHome,       \* Dataset.data_home
    indexFile,      \* the index JSON file on disk
    metaFile,       \* the metadata file under data_home
    files,          \* content digest of each data file under data_home
    index,          \* cached Dataset.index: [set, val]
    metadata,       \* cached Dataset.metadata: [set, val]
    nParse,         \* number of json.load calls on the index file
    nLoadMetadata,  \* number of load_metadata calls
    parsed,         \* the value the index cache was first filled with
    metaCallers,    \* operations during which load_metadata was called
    track,          \* the Track most recently returned by a lookup
    result,         \* outcome of the most recent operation
    lastValid,      \* last validate() result on the current file system
    prevValid,      \* the validate() result before that one
    steps,          \* number of Dataset operations so far
    fsChanges       \* number of file-system changes so far

\* the download pipeline
VARIABLES
    remotes,        \* Dataset.remotes: the remote descriptors, in dict order
    archive,        \* digest of the downloaded file at each local path
    dirs,           \* each directory: whether it exists, the trees unpacked
    nTransfers,     \* number of network transfers so far
    lastCall,       \* outcome and call log of the most recent download call
    previous,       \* summary of the download call before that one
    nDownloads      \* number of download calls so far

\* Track properties of the per-dataset loaders
VARIABLES
    loader,         \* the dataset module the Track or Dataset belongs to
    paths,          \* the Track's resolved path per file role (or None)
    roleFiles,      \* content of the file behind each role
    cache,          \* the instance's memoized property values
    nCalls,         \* number of load/parse calls per property
    access,         \* outcome of the most recent property access
    nAccess         \* number of accesses and file changes so far

\* beatles.fix_newpoint
VARIABLES
    beat_positions, \* the array fix_newpoint works on, in place
    given,          \* the array as _load_beats handed it over
    pc              \* "while": in the loop, "returned", "idle": not called

\* the module-level loaders salami and medleydb_pitch
VARIABLES
    legacyModule,    \* "salami" or "medleydb_pitch"
    metadataFiles,   \* per data_home: the module's metadata file, or absent
    MODULE_METADATA, \* the global SALAMI_METADATA / MEDLEYDB_METADATA
    loadTrack,       \* the most recent load_track call and its outcome
    nLoadTracks      \* number of load_track calls so far

\* scripts/update_index.py
VARIABLES
    indexModule,    \* the dataset whose index file is updated
    indexJson,      \* the index file of that dataset, as a dict
    metadataSum,    \* md5 of the dataset's metadata file under data_home
    lastUpdate,     \* the most recent update_index run
    nUpdates        \* number of runs and metadata changes so far

\* track.MultiTrack
VARIABLES
    signals,        \* the signal of each track of the multitrack
    mix,            \* the most recent get_target / get_random_target call
    nMixes          \* number of such calls so far

datasetVars == << dataHome, indexFile, metaFile, files, index, metadata,
                  nParse, nLoadMetadata, parsed, metaCallers, track, result,
                  lastValid, prevValid, steps, fsChanges >>

downloadVars == << remotes, archive, dirs, nTransfers, lastCall, previous,
                   nDownloads >>

propertyVars == << loader, paths, roleFiles, cache, nCalls, access, nAccess >>

newpointVars == << beat_positions, given, pc >>

legacyVars == << legacyModule, metadataFiles, MODULE_METADATA, loadTrack,
                 nLoadTracks >>

updateVars == << indexModule, indexJson, metadataSum, lastUpdate, nUpdates >>

mixVars == << signals, mix, nMixes >>

laterVars == << newpointVars, legacyVars, updateVars, mixVars >>

vars == << datasetVars, downloadVars, propertyVars, laterVars >>

envVars == << dataHome, indexFile, metaFile, files >>

Unset == [set |-> FALSE, val |-> << >>]

UnsetMeta == [set |-> FALSE, val |-> {}]

NoTrack == [live |-> FALSE, id |-> "", roles |-> << >>, hasMeta |-> FALSE]

NoResult ==
    [op |-> "none", arg |-> "", exc |-> "none", ids |-> << >>,
     missing |-> << >>, invalid |-> << >>, tracks |-> << >>, alt |-> << >>]

NoValid == [done |-> FALSE, missing |-> << >>, invalid |-> << >>]

(***************************************************************************)
(* The Dataset object.  Operations are functions of a heap h (the caches   *)
(* and call counters of one Dataset) and return the heap they leave, the   *)
(* exception raised ("none" when they return) and the value returned.      *)
(***************************************************************************)
Heap ==
    [index |-> index, metadata |-> metadata, nParse |-> nParse,
     nMeta |-> nLoadMetadata, parsed |-> parsed]

Ret(h, exc, val) == [h |-> h, exc |-> exc, val |-> val]

\* Dataset.load_index: open() raises when the file is absent, json.load
\* returns the parsed object whatever its top-level keys are.
load_index(h) ==
    IF ~indexFile.exists
    THEN Ret(h, "FileNotFoundError", << >>)
    ELSE Ret([h EXCEPT !.nParse = @ + 1], "none", indexFile.json)

\* utils.cached_property: the body runs on the first access and its value
\* is stored on the instance; an access that raises stores nothing.
cached_property(slot, h, run) ==
    IF slot.set
    THEN [h |-> h, exc |-> "none", val |-> slot.val, store |-> FALSE]
    ELSE [h |-> run.h, exc |-> run.exc, val |-> run.val,
          store |-> run.exc = "none"]

\* Dataset.index
index_get(h) ==
    LET Stored(r) ==
            Ret(IF r.store
                THEN [r.h EXCEPT !.index = [set |-> TRUE, val |-> r.val],
                                 !.parsed = r.val]
                ELSE r.h,
                r.exc, r.val)
    IN  Stored(cached_property(h.index, h, load_index(h)))

\* module.load_metadata(data_home): None when the metadata file does not
\* exist, else a dict keyed by track id with a 'data_home' entry.
load_metadata(data_home) ==
    [none |-> ~metaFile.exists, keys |-> metaFile.ids \cup {"data_home"}]

\* body of Dataset.metadata
metadata_body(h) ==
    LET Body(metadata_index, h1) ==
            IF metadata_index.none
            THEN Ret(h1, "TypeError", {})
            ELSE Ret(h1, "none", metadata_index.keys \cup {"data_home"})
    IN  Body(load_metadata(dataHome), [h EXCEPT !.nMeta = @ + 1])

\* Dataset.metadata
metadata_get(h) ==
    LET Stored(r) ==
            Ret(IF r.store
                THEN [r.h EXCEPT !.metadata = [set |-> TRUE, val |-> r.val]]
                ELSE r.h,
                r.exc, r.val)
    IN  Stored(cached_property(h.metadata, h, metadata_body(h)))

\* the loop of __getitem__: every [path, checksum] list of the entry gets
\* its path replaced by os.path.join(data_home, path)
Resolve(body) ==
    [c \in 1..Len(body) |->
        [body[c] EXCEPT !.path = join(dataHome, body[c].path)]]

Roles(body) == [c \in 1..Len(body) |-> body[c].role]

\* Dataset.__getitem__.  dict.copy() is shallow: the [path, checksum] lists
\* of the copy are the lists of the cached index, so the assignment in the
\* loop writes into the cached index.
getitem(h, track_id) ==
    LET NewVal(val, item) ==
            [k \in 1..Len(val) |->
                IF val[k].key = track_id
                THEN [item EXCEPT !.body = Resolve(item.body)]
                ELSE val[k]]
        Copied(i, item) ==
            CASE item.kind = "str" ->
                   Ret(i.h, "AttributeError", NoTrack)
              [] item.kind = "map" /\ item.body # << >> ->
                   Ret(i.h, "KeyError", NoTrack)
              [] OTHER ->
                   Ret([i.h EXCEPT !.index.val =
                           IF item.kind = "entry"
                           THEN NewVal(i.val, item) ELSE @],
                       "none",
                       [live |-> TRUE, id |-> track_id,
                        roles |-> IF item.kind = "entry"
                                  THEN Roles(item.body) ELSE << >>,
                        hasMeta |-> TRUE])
        Indexed(i) ==
            IF i.exc # "none" THEN Ret(i.h, i.exc, NoTrack)
            ELSE IF track_id \notin KeySet(i.val)
            THEN Ret(i.h, "KeyError", NoTrack)
            ELSE Copied(i, Item(i.val, track_id))
        WithMetadata(m) ==
            IF m.exc # "none" THEN Ret(m.h, m.exc, NoTrack)
            ELSE IF track_id \notin m.val THEN Ret(m.h, "KeyError", NoTrack)
            ELSE Indexed(index_get(m.h))
    IN  WithMetadata(metadata_get(h))

\* Dataset.track_ids
track_ids(h) ==
    LET Listed(i) ==
            Ret(i.h, i.exc, IF i.exc = "none" THEN Keys(i.val) ELSE << >>)
    IN  Listed(index_get(h))

(***************************************************************************)
(* The file system under data_home                                         *)
(***************************************************************************)
NameOf(p) == CHOOSE n \in FileNames : p = join(dataHome, Rel(n))

\* os.path.exists
exists(p) ==
    \E n \in FileNames : p = join(dataHome, Rel(n)) /\ files[n] # "absent"

\* utils.md5
md5(p) == files[NameOf(p)]

\* the [path, checksum] lists a Track holds are those of the cached index
TrackCells(val, track_id) ==
    IF track_id \in KeySet(val) /\ Item(val, track_id).kind = "entry"
    THEN Item(val, track_id).body
    ELSE << >>

IsMissing(c) == ~exists(c.path)

IsInvalid(c) == exists(c.path) /\ c.sum # NullSum /\ md5(c.path) # c.sum

PathsOf(cells) == [c \in 1..Len(cells) |-> cells[c].path]

\* Track.validate: (missing_files, invalid_checksums) of one track
track_validate(cells) ==
    [missing |-> PathsOf(SelectSeq(cells, IsMissing)),
     invalid |-> PathsOf(SelectSeq(cells, IsInvalid))]

VRet(h, exc, missing, invalid) ==
    [h |-> h, exc |-> exc, missing |-> missing, invalid |-> invalid]

RECURSIVE validate_loop(_, _, _, _)
validate_loop(h, ids, missing_files, invalid_checksums) ==
    IF ids = << >>
    THEN VRet(h, "none", missing_files, invalid_checksums)
    ELSE
    LET Validated(g, track_validation) ==
            validate_loop(g.h, Tail(ids),
                          missing_files \o track_validation.missing,
                          invalid_checksums \o track_validation.invalid)
        Looked(g) ==
            IF g.exc # "none"
            THEN VRet(g.h, g.exc, << >>, << >>)
            ELSE Validated(g, track_validate(TrackCells(g.h.index.val,
                                                        Head(ids))))
    IN  Looked(getitem(h, Head(ids)))

\* Dataset.validate
validate(h) ==
    LET Listed(t) ==
            IF t.exc # "none"
            THEN VRet(t.h, t.exc, << >>, << >>)
            ELSE validate_loop(t.h, t.val, << >>, << >>)
    IN  Listed(track_ids(h))

\* tqdm.tqdm(iterable, disable=...): yields the items of the iterable, with
\* or without a progress bar
tqdm(iterable, disable) == iterable

RECURSIVE load_loop(_, _, _)
load_loop(h, ids, tracks) ==
    IF ids = << >>
    THEN Ret(h, "none", tracks)
    ELSE
    LET Looked(g) ==
            IF g.exc # "none"
            THEN Ret(g.h, g.exc, << >>)
            ELSE load_loop(g.h, Tail(ids), Append(tracks, g.val))
    IN  Looked(getitem(h, Head(ids)))

\* load() with the loop run only under a progress bar
load_only_verbose(h, verbose) ==
    LET Indexed(i) ==
            IF i.exc # "none"
            THEN Ret(i.h, i.exc, << >>)
            ELSE load_loop(i.h, IF verbose THEN Keys(i.val) ELSE << >>,
                           << >>)
    IN  Indexed(index_get(h))

\* Dataset.load: iterates over the keys of self.index; the value is the
\* mapping track_id -> Track, kept as the sequence of its Tracks
load(h, verbose) ==
    LET Indexed(i) ==
            IF i.exc # "none"
            THEN Ret(i.h, i.exc, << >>)
            ELSE load_loop(i.h, tqdm(Keys(i.val), ~verbose), << >>)
    IN  Indexed(index_get(h))

TrackIdsOf(tracks) == [k \in 1..Len(tracks) |-> tracks[k].id]

(***************************************************************************)
(* Remote files and the download pipeline.  dataset.py, salami.py and      *)
(* beatles.py call download_from_remote, unzip, untar, download_zip_file   *)
(* and download_tar_file of download_utils / utils, which are not part of  *)
(* the sources: those follow the RemoteFetcher contract and the calls      *)
(* asserted in tests/test_download_utils.py.  Every function takes the     *)
(* world w (local files, directories, transfer counter, call log) and      *)
(* returns [w, exc, val].                                                  *)
(***************************************************************************)
\* Number of download calls explored per behaviour.
MaxDownloads == 2

RemoteFileMetadata(filename, url, checksum) ==
    [filename |-> filename, url |-> url, checksum |-> checksum]

\* `piece in url`: a URL is the sequence of its pieces
InUrl(piece, url) == \E i \in 1..Len(url) : url[i] = piece

ZipRemote ==
    RemoteFileMetadata(Rel("a.zip"),
                       << "https://zenodo.org/a", ".zip", "?download=1" >>,
                       "md5-a")

TarRemote ==
    RemoteFileMetadata(Rel("b.tar.gz"), << "https://zenodo.org/b", ".tar.gz" >>,
                       "md5-b")

FileRemote ==
    RemoteFileMetadata(Rel("c.csv"), << "https://zenodo.org/c.csv" >>, "md5-c")

\* openmic2018.REMOTES["remote_data"]: a gzip-tar archive named .tgz
OPENMIC_REMOTE ==
    RemoteFileMetadata(
        Rel("openmic-2018-v1.0.0.tgz"),
        << "https://zenodo.org/record/1432913/files/openmic-2018-v1.0.0",
           ".tgz", "?download=1" >>,
        "e4ccf187e2bb5ab2e115416e8aafe7f4")

SALAMI_DIR == Rel("Salami")

SALAMI_ANNOT_REMOTE ==
    RemoteFileMetadata(
        Rel("salami-data-public-master.zip"),
        << "https://github.com/DDMAL/salami-data-public/archive/master",
           ".zip" >>,
        "b01d6eb5b71cca1f3163fae4b2cd4c61")

BEATLES_DIR == Rel("Beatles")

BEATLES_ANNOT_REMOTE ==
    RemoteFileMetadata(
        join(BEATLES_DIR, Rel("The Beatles Annotations.tar.gz")),
        << "http://isophonics.net/files/annotations/The%20Beatles%20Annotations",
           ".tar.gz" >>,
        "62425c552d37c6bb655a78e4603828cc")

\* module.remotes of the Dataset, in dict order
RemoteSets ==
    { << ZipRemote >>, << ZipRemote, TarRemote, FileRemote >>,
      << OPENMIC_REMOTE >> }

AllRemotes ==
    {ZipRemote, TarRemote, FileRemote, OPENMIC_REMOTE, SALAMI_ANNOT_REMOTE,
     BEATLES_ANNOT_REMOTE}

ArchivePaths == {join(h, r.filename) : h \in DataHomes, r \in AllRemotes}

DirPaths ==
    UNION {{h, join(h, SALAMI_DIR),
            join(join(h, BEATLES_DIR), Rel("annotations"))} : h \in DataHomes}

Absent == "absent"

NoPath == [abs |-> FALSE, parts |-> << >>]

NoRemote == RemoteFileMetadata(NoPath, << >>, "")

NoDir == [exists |-> FALSE, trees |-> {}]

\* What one call meets: the server's answer, a payload damaged on the way,
\* an extraction that fails.
Healthy == [status |-> "ok", corrupt |-> FALSE, unpacks |-> TRUE]

Envs ==
    {Healthy, [Healthy EXCEPT !.status = "error"],
     [Healthy EXCEPT !.corrupt = TRUE], [Healthy EXCEPT !.unpacks = FALSE]}

World ==
    [archive |-> archive, dirs |-> dirs, nTransfers |-> nTransfers,
     log |-> << >>]

Out(w, exc, val) == [w |-> w, exc |-> exc, val |-> val]

NoEvent ==
    [ev |-> "", fn |-> "", remote |-> NoRemote, path |-> NoPath,
     dest |-> NoPath, force |-> FALSE, cleanup |-> FALSE, subdir |-> FALSE,
     exc |-> "none"]

Logged(w, e) == [w EXCEPT !.log = Append(@, e)]

Called(fn) == [NoEvent EXCEPT !.ev = "call", !.fn = fn]

Returns(w, fn, val) ==
    Out(Logged(w, [NoEvent EXCEPT !.ev = "return", !.fn = fn, !.path = val]),
        "none", val)

Raises(w, fn, exc) ==
    Out(Logged(w, [NoEvent EXCEPT !.ev = "raise", !.fn = fn, !.exc = exc]),
        exc, NoPath)

\* an optional argument: "omitted", "True" or "False"
Flag(v, default) == IF v = "omitted" THEN default ELSE v = "True"

Given(b) == IF b THEN "True" ELSE "False"

NoKw == [cleanup |-> "omitted", use_subdir |-> "omitted"]

\* a function ends as the last call it made ended
Ended(fn, o) ==
    IF o.exc # "none" THEN Raises(o.w, fn, o.exc) ELSE Returns(o.w, fn, NoPath)

download_from_remote_one_error(w, env, remote, destination, force_overwrite) ==
    LET fn == "download_from_remote"
        download_path == join(destination, remote.filename)
        Fetch(w1) ==
            IF env.status # "ok" \/ env.corrupt
            THEN Raises(w1, fn, "IOError")
            ELSE Returns([w1 EXCEPT !.archive[download_path] =
                                        remote.checksum],
                         fn, download_path)
        Start(w0) ==
            IF w0.archive[download_path] = remote.checksum /\ ~force_overwrite
            THEN Returns(w0, fn, download_path)
            ELSE Fetch(Logged([w0 EXCEPT !.nTransfers = @ + 1],
                              [NoEvent EXCEPT !.ev = "transfer", !.fn = fn,
                                              !.remote = remote]))
    IN  Start(Logged(w, [Called(fn) EXCEPT !.remote = remote,
                                           !.dest = destination,
                                           !.force = force_overwrite]))

\* download_from_remote(remote, destination, force_overwrite): a no-op when
\* the destination holds the file with the declared checksum and
\* force_overwrite is false; otherwise one transfer, an I/O error on a
\* server error, an integrity error (the file is not kept) on a checksum
\* mismatch, else the local path.
download_from_remote(w, env, remote, destination, force_overwrite) ==
    LET fn == "download_from_remote"
        download_path == join(destination, remote.filename)
        Fetch(w1) ==
            IF env.status # "ok"
            THEN Raises(w1, fn, "IOError")
            ELSE IF env.corrupt
            THEN Raises([w1 EXCEPT !.archive[download_path] = Absent], fn,
                        "DownloadIntegrityError")
            ELSE Returns([w1 EXCEPT !.archive[download_path] =
                                        remote.checksum],
                         fn, download_path)
        Start(w0) ==
            IF w0.archive[download_path] = remote.checksum /\ ~force_overwrite
            THEN Returns(w0, fn, download_path)
            ELSE Fetch(Logged([w0 EXCEPT !.nTransfers = @ + 1],
                              [NoEvent EXCEPT !.ev = "transfer", !.fn = fn,
                                              !.remote = remote]))
    IN  Start(Logged(w, [Called(fn) EXCEPT !.remote = remote,
                                           !.dest = destination,
                                           !.force = force_overwrite]))

\* unzip / untar (archive_path, destination, cleanup): extraction into
\* destination; with cleanup the archive is removed after the extraction
\* succeeded; a failed extraction leaves the archive where it is.
unpack(fn, w, env, archive_path, destination, cleanup) ==
    LET Clean(w1) ==
            IF cleanup
            THEN Logged([w1 EXCEPT !.archive[archive_path] = Absent],
                        [NoEvent EXCEPT !.ev = "remove", !.fn = fn,
                                        !.path = archive_path])
            ELSE w1
        Extract(w0) ==
            IF w0.archive[archive_path] = Absent \/ ~env.unpacks
            THEN Raises(w0, fn, "ExtractError")
            ELSE Returns(
                     Clean(Logged(
                         [w0 EXCEPT !.dirs[destination] =
                              [exists |-> TRUE,
                               trees |-> @.trees
                                             \cup {w0.archive[archive_path]}]],
                         [NoEvent EXCEPT !.ev = "extracted", !.fn = fn,
                                         !.path = archive_path,
                                         !.dest = destination])),
                     fn, NoPath)
    IN  Extract(Logged(w, [Called(fn) EXCEPT !.path = archive_path,
                                             !.dest = destination,
                                             !.cleanup = cleanup]))

unzip(w, env, zip_path, save_dir, cleanup) ==
    unpack("unzip", w, env, zip_path, save_dir, cleanup)

untar(w, env, tar_path, save_dir, cleanup) ==
    unpack("untar", w, env, tar_path, save_dir, cleanup)

\* download_zip_file / download_tar_file (remote, save_dir, force_overwrite,
\* cleanup=False, use_subdir=False)
download_archive(fn, unpacker, w, env, remote, save_dir, force_overwrite, kw) ==
    LET Fetched(d) ==
            IF d.exc # "none"
            THEN d
            ELSE unpack(unpacker, d.w, env, d.val, save_dir,
                        Flag(kw.cleanup, FALSE))
    IN  Ended(fn,
              Fetched(download_from_remote(
                          Logged(w, [Called(fn) EXCEPT
                                         !.remote = remote,
                                         !.dest = save_dir,
                                         !.force = force_overwrite,
                                         !.cleanup = Flag(kw.cleanup, FALSE),
                                         !.subdir = Flag(kw.use_subdir,
                                                         FALSE)]),
                          env, remote, save_dir, force_overwrite)))

download_zip_file_unzip_first(w, env, zip_remote, save_dir, force_overwrite, kw) ==
    LET fn == "download_zip_file"
        Unzipped(u) ==
            download_from_remote(u.w, env, zip_remote, save_dir,
                                 force_overwrite)
    IN  Ended(fn,
              Unzipped(unzip(Logged(w, [Called(fn) EXCEPT
                                            !.remote = zip_remote,
                                            !.dest = save_dir,
                                            !.force = force_overwrite,
                                            !.cleanup = Flag(kw.cleanup,
                                                             FALSE),
                                            !.subdir = Flag(kw.use_subdir,
                                                            FALSE)]),
                             env, join(save_dir, zip_remote.filename),
                             save_dir, Flag(kw.cleanup, FALSE))))

download_zip_file(w, env, zip_remote, save_dir, force_overwrite, kw) ==
    download_archive("download_zip_file", "unzip", w, env, zip_remote,
                     save_dir, force_overwrite, kw)

download_tar_file(w, env, tar_remote, save_dir, force_overwrite, kw) ==
    download_archive("download_tar_file", "untar", w, env, tar_remote,
                     save_dir, force_overwrite, kw)

NoneGiven == [none |-> TRUE, items |-> << >>]

ListOf(items) == [none |-> FALSE, items |-> items]

RECURSIVE download_each(_, _, _, _, _, _, _)
download_each(kind, o, env, items, save_dir, force_overwrite, kw) ==
    IF items = << >> \/ o.exc # "none"
    THEN o
    ELSE download_each(
             kind,
             CASE kind = "zip" ->
                      download_zip_file(o.w, env, Head(items), save_dir,
                                        force_overwrite, kw)
               [] kind = "tar" ->
                      download_tar_file(o.w, env, Head(items), save_dir,
                                        force_overwrite, kw)
               [] OTHER ->
                      download_from_remote(o.w, env, Head(items), save_dir,
                                           force_overwrite),
             env, Tail(items), save_dir, force_overwrite, kw)

downloader_one_per_list(w, env, save_dir, args) ==
    LET force_overwrite == Flag(args.force_overwrite, FALSE)
        kw == [cleanup |-> Given(Flag(args.cleanup, FALSE)),
               use_subdir |-> Given(Flag(args.use_subdir, FALSE))]
        first(l) == IF l.items = << >> THEN << >> ELSE << Head(l.items) >>
        Each(kind, o, l) ==
            download_each(kind, o, env, first(l), save_dir, force_overwrite,
                          kw)
    IN  Ended("downloader",
              Each("file",
                   Each("tar",
                        Each("zip",
                             Out(Logged(w, [Called("downloader") EXCEPT
                                                !.dest = save_dir]),
                                 "none", NoPath),
                             args.zip_downloads),
                        args.tar_downloads),
                   args.file_downloads))

\* downloader(save_dir, zip_downloads=None, tar_downloads=None,
\*            file_downloads=None, force_overwrite=False, cleanup=False,
\*            use_subdir=False)
downloader(w, env, save_dir, args) ==
    LET force_overwrite == Flag(args.force_overwrite, FALSE)
        kw == [cleanup |-> Given(Flag(args.cleanup, FALSE)),
               use_subdir |-> Given(Flag(args.use_subdir, FALSE))]
        Each(kind, o, l) ==
            download_each(kind, o, env, l.items, save_dir, force_overwrite,
                          kw)
    IN  Ended("downloader",
              Each("file",
                   Each("tar",
                        Each("zip",
                             Out(Logged(w, [Called("downloader") EXCEPT
                                                !.dest = save_dir]),
                                 "none", NoPath),
                             args.zip_downloads),
                        args.tar_downloads),
                   args.file_downloads))

RECURSIVE download_loop(_, _, _, _, _)
\* the loop with the gzip-tar branch left out
download_loop_zip_or_plain(o, env, remote_keys, force_overwrite, cleanup) ==
    IF remote_keys = << >> \/ o.exc # "none"
    THEN o
    ELSE LET Dispatch(remote, kw) ==
                 IF InUrl(".zip", remote.url)
                 THEN download_zip_file(o.w, env, remote, dataHome,
                                        force_overwrite, kw)
                 ELSE download_from_remote(o.w, env, remote, dataHome,
                                           force_overwrite)
         IN  download_loop(
                 Dispatch(Head(remote_keys),
                          [NoKw EXCEPT !.cleanup = Given(cleanup)]),
                 env, Tail(remote_keys), force_overwrite, cleanup)

\* the loop of Dataset.download over self.remotes
download_loop(o, env, remote_keys, force_overwrite, cleanup) ==
    IF remote_keys = << >> \/ o.exc # "none"
    THEN o
    ELSE LET Dispatch(remote, kw) ==
                 IF InUrl(".zip", remote.url)
                 THEN download_zip_file(o.w, env, remote, dataHome,
                                        force_overwrite, kw)
                 ELSE IF InUrl(".tar.gz", remote.url)
                 THEN download_tar_file(o.w, env, remote, dataHome,
                                        force_overwrite, kw)
                 ELSE download_from_remote(o.w, env, remote, dataHome,
                                           force_overwrite)
         IN  download_loop(
                 Dispatch(Head(remote_keys),
                          [NoKw EXCEPT !.cleanup = Given(cleanup)]),
                 env, Tail(remote_keys), force_overwrite, cleanup)

\* Dataset.download(force_overwrite, cleanup)
download(w, env, force_overwrite, cleanup) ==
    LET MakeDirs(w0) ==
            IF ~w0.dirs[dataHome].exists
            THEN Logged([w0 EXCEPT !.dirs[dataHome].exists = TRUE],
                        [NoEvent EXCEPT !.ev = "makedirs",
                                        !.fn = "Dataset.download",
                                        !.path = dataHome])
            ELSE w0
    IN  Ended("Dataset.download",
              download_loop(
                  Out(MakeDirs(Logged(w, [Called("Dataset.download") EXCEPT
                                              !.dest = dataHome,
                                              !.force = force_overwrite,
                                              !.cleanup = cleanup])),
                      "none", NoPath),
                  env, remotes, force_overwrite, cleanup))

\* utils.force_delete_all(remote, dataset_path, data_home): removes what an
\* earlier download of the remote left under data_home
force_delete_all(w, remote, dataset_path, data_home) ==
    LET Files(p) ==
            IF w.archive[p] # Absent
            THEN Logged([w EXCEPT !.archive[p] = Absent],
                        [NoEvent EXCEPT !.ev = "remove",
                                        !.fn = "force_delete_all",
                                        !.path = p])
            ELSE w
        Tree(w0) ==
            IF dataset_path = NoPath
            THEN w0
            ELSE [w0 EXCEPT !.dirs[dataset_path] = NoDir]
    IN  Tree(Files(join(data_home, remote.filename)))

\* salami.exists(data_home)
salami_exists(w, data_home) ==
    LET save_path == data_home
        dataset_path == join(save_path, SALAMI_DIR)
    IN  w.dirs[dataset_path].exists

salami_download_delete_late(w, env, data_home, force_overwrite) ==
    LET fn == "salami.download"
        save_path == data_home
        dataset_path == join(save_path, SALAMI_DIR)
        MakeDirs(w2) ==
            IF ~w2.dirs[dataset_path].exists
            THEN [w2 EXCEPT !.dirs[dataset_path].exists = TRUE]
            ELSE w2
        Delete(w1) ==
            IF force_overwrite
            THEN force_delete_all(w1, SALAMI_ANNOT_REMOTE, NoPath, data_home)
            ELSE w1
        Unzip(d) ==
            IF d.exc # "none"
            THEN d
            ELSE unzip(MakeDirs(Delete(d.w)), env, d.val, dataset_path, TRUE)
        Run(w0) ==
            IF salami_exists(w0, data_home) /\ ~force_overwrite
            THEN Returns(w0, fn, NoPath)
            ELSE Ended(fn, Unzip(download_from_remote(
                                     w0, env, SALAMI_ANNOT_REMOTE,
                                     data_home, force_overwrite)))
    IN  Run(Logged(w, [Called(fn) EXCEPT !.dest = data_home,
                                         !.force = force_overwrite]))

\* salami.download(data_home, force_overwrite); the validate() and print
\* that end it change nothing
salami_download(w, env, data_home, force_overwrite) ==
    LET fn == "salami.download"
        save_path == data_home
        dataset_path == join(save_path, SALAMI_DIR)
        MakeDirs(w2) ==
            IF ~w2.dirs[dataset_path].exists
            THEN [w2 EXCEPT !.dirs[dataset_path].exists = TRUE]
            ELSE w2
        Delete(w1) ==
            IF force_overwrite
            THEN force_delete_all(w1, SALAMI_ANNOT_REMOTE, NoPath, data_home)
            ELSE w1
        Unzip(d) ==
            IF d.exc # "none"
            THEN d
            ELSE unzip(MakeDirs(d.w), env, d.val, dataset_path, TRUE)
        Run(w0) ==
            IF salami_exists(w0, data_home) /\ ~force_overwrite
            THEN Returns(w0, fn, NoPath)
            ELSE Ended(fn, Unzip(download_from_remote(
                                     Delete(w0), env, SALAMI_ANNOT_REMOTE,
                                     data_home, force_overwrite)))
    IN  Run(Logged(w, [Called(fn) EXCEPT !.dest = data_home,
                                         !.force = force_overwrite]))

\* beatles.download(data_home, clobber); get_save_path makes the
\* annotations directory
beatles_download(w, env, data_home, clobber) ==
    LET fn == "beatles.download"
        save_path == join(join(data_home, BEATLES_DIR), Rel("annotations"))
        Untar(d) ==
            IF d.exc # "none"
            THEN d
            ELSE untar(d.w, env, d.val, save_path, TRUE)
        Run(w0) ==
            Ended(fn, Untar(download_from_remote(
                                [w0 EXCEPT !.dirs[save_path].exists = TRUE],
                                env, BEATLES_ANNOT_REMOTE, data_home,
                                clobber)))
    IN  Run(Logged(w, [Called(fn) EXCEPT !.dest = data_home,
                                         !.force = clobber]))

(***************************************************************************)
(* State machine of the download pipeline: download calls on one           *)
(* data_home, each meeting a server and a disk that may fail.              *)
(***************************************************************************)
NoArgs ==
    [zip_downloads |-> NoneGiven, tar_downloads |-> NoneGiven,
     file_downloads |-> NoneGiven, force_overwrite |-> "omitted",
     cleanup |-> "omitted", use_subdir |-> "omitted"]

DownloaderLists ==
    {[NoArgs EXCEPT !.zip_downloads = ListOf(<< ZipRemote >>)],
     [NoArgs EXCEPT !.zip_downloads = ListOf(<< ZipRemote,
                                                 SALAMI_ANNOT_REMOTE >>),
                    !.tar_downloads = ListOf(<< TarRemote >>),
                    !.file_downloads = ListOf(<< FileRemote >>)],
     [NoArgs EXCEPT !.tar_downloads = ListOf(<< TarRemote >>),
                    !.file_downloads = ListOf(<< FileRemote >>)],
     NoArgs}

DownloaderArgs ==
    UNION {{l,
            [l EXCEPT !.force_overwrite = "True", !.cleanup = "True",
                      !.use_subdir = "True"],
            [l EXCEPT !.force_overwrite = "False", !.cleanup = "True"],
            [l EXCEPT !.force_overwrite = "True", !.use_subdir = "False"]}
           : l \in DownloaderLists}

NoLast ==
    [fn |-> "none", force |-> FALSE, cleanup |-> "omitted", env |-> Healthy,
     exc |-> "none", val |-> NoPath, log |-> << >>, transfers |-> 0,
     before |-> [p \in DirPaths |-> NoDir], args |-> NoArgs]

NoPrevious == [fn |-> "none", force |-> FALSE, exc |-> "none"]

NoDownloads ==
    /\ remotes = << >>
    /\ archive = [p \in ArchivePaths |-> Absent]
    /\ dirs = [p \in DirPaths |-> NoDir]
    /\ nTransfers = 0
    /\ lastCall = NoLast
    /\ previous = NoPrevious
    /\ nDownloads = 0

(***************************************************************************)
(* Properties of the per-dataset loaders (ballroom, jtd, openmic2018,      *)
(* cipi, compmusic_carnatic_rhythm, tinysol): one instance, the file       *)
(* behind each of its properties, and the accesses made to it.  A load     *)
(* function gets the resolved path (NonePath when the role is absent from  *)
(* the index) and the content of the file, and yields                      *)
(* [exc, val, opened, names, hint]: the exception, the value, the path it  *)
(* opened, the paths its error message names, whether the message          *)
(* suggests to download.                                                   *)
(***************************************************************************)
\* Number of accesses and file changes explored per behaviour.
MaxAccesses == 3

NonePath == << >>

PathOf(prop) == << "data_home", prop >>

NoneValue == [none |-> TRUE, of |-> ""]

Value(of) == [none |-> FALSE, of |-> of]

Properties_beats_plain ==
    {[loader |-> "ballroom", prop |-> "beats", cached |-> FALSE,
      load |-> "io.coerce_to_string_io"],
     [loader |-> "ballroom", prop |-> "tempo", cached |-> TRUE,
      load |-> "io.coerce_to_string_io"],
     [loader |-> "ballroom", prop |-> "audio", cached |-> FALSE,
      load |-> "ballroom.load_audio"],
     [loader |-> "jtd", prop |-> "audio", cached |-> FALSE,
      load |-> "io.coerce_to_string_io"],
     [loader |-> "jtd", prop |-> "beats", cached |-> TRUE,
      load |-> "jtd.coerce_to_string_io_multiple_args"],
     [loader |-> "jtd", prop |-> "midi", cached |-> TRUE,
      load |-> "io.coerce_to_string_io"],
     [loader |-> "jtd", prop |-> "onsets", cached |-> TRUE,
      load |-> "io.coerce_to_string_io"],
     [loader |-> "openmic2018", prop |-> "audio", cached |-> FALSE,
      load |-> "io.coerce_to_string_io"],
     [loader |-> "openmic2018", prop |-> "vggish", cached |-> FALSE,
      load |-> "openmic2018.vggish"],
     [loader |-> "cipi", prop |-> "expressiviness", cached |-> TRUE,
      load |-> "cipi._check_embedding"],
     [loader |-> "compmusic_carnatic_rhythm", prop |-> "_metadata",
      cached |-> TRUE, load |-> "compmusic_carnatic_rhythm._metadata"],
     [loader |-> "tinysol", prop |-> "_track_metadata", cached |-> FALSE,
      load |-> "tinysol.Track.__init__"]}

\* each property: the module, its name, whether it is declared with
\* cached_property, the function that makes its value
Properties ==
    {[loader |-> "ballroom", prop |-> "beats", cached |-> TRUE,
      load |-> "io.coerce_to_string_io"],
     [loader |-> "ballroom", prop |-> "tempo", cached |-> TRUE,
      load |-> "io.coerce_to_string_io"],
     [loader |-> "ballroom", prop |-> "audio", cached |-> FALSE,
      load |-> "ballroom.load_audio"],
     [loader |-> "jtd", prop |-> "audio", cached |-> FALSE,
      load |-> "io.coerce_to_string_io"],
     [loader |-> "jtd", prop |-> "beats", cached |-> TRUE,
      load |-> "jtd.coerce_to_string_io_multiple_args"],
     [loader |-> "jtd", prop |-> "midi", cached |-> TRUE,
      load |-> "io.coerce_to_string_io"],
     [loader |-> "jtd", prop |-> "onsets", cached |-> TRUE,
      load |-> "io.coerce_to_string_io"],
     [loader |-> "openmic2018", prop |-> "audio", cached |-> FALSE,
      load |-> "io.coerce_to_string_io"],
     [loader |-> "openmic2018", prop |-> "vggish", cached |-> FALSE,
      load |-> "openmic2018.vggish"],
     [loader |-> "cipi", prop |-> "expressiviness", cached |-> TRUE,
      load |-> "cipi._check_embedding"],
     [loader |-> "compmusic_carnatic_rhythm", prop |-> "_metadata",
      cached |-> TRUE, load |-> "compmusic_carnatic_rhythm._metadata"],
     [loader |-> "tinysol", prop |-> "_track_metadata", cached |-> FALSE,
      load |-> "tinysol.Track.__init__"]}

Loaders == {p.loader : p \in Properties}

\* the loaders whose properties are backed by index roles of a Track
TrackLoaders == {"ballroom", "jtd", "openmic2018", "cipi"}

PropsOf(l) == {p.prop : p \in {q \in Properties : q.loader = l}}

Prop(l, name) == CHOOSE p \in Properties : p.loader = l /\ p.prop = name

Got(val, opened) ==
    [exc |-> "none", val |-> val, opened |-> opened, names |-> {},
     hint |-> FALSE]

Failed(exc, opened, names, hint) ==
    [exc |-> exc, val |-> NoneValue, opened |-> opened, names |-> names,
     hint |-> hint]

\* open(path) and the parse that follows: a missing file raises the
\* built-in error, which names the path and nothing else
open_and_parse(path, content) ==
    IF content = "absent"
    THEN Failed("FileNotFoundError", path, {path}, FALSE)
    ELSE Got(Value(content), path)

\* ballroom.load_audio(audio_path)
load_audio(audio_path, content) ==
    IF audio_path = NonePath
    THEN Got(NoneValue, NonePath)
    ELSE open_and_parse(audio_path, content)

\* io.coerce_to_string_io / io.coerce_to_bytes_io / io.load_notes_from_midi:
\* None for a None path, else the function on the opened file
coerce_to_string_io(file_path_or_obj, content) ==
    IF file_path_or_obj = NonePath
    THEN Got(NoneValue, NonePath)
    ELSE open_and_parse(file_path_or_obj, content)

\* jtd.coerce_to_string_io_multiple_args
coerce_to_string_io_multiple_args(file_path_or_obj, content) ==
    IF file_path_or_obj = NonePath
    THEN Got(NoneValue, NonePath)
    ELSE open_and_parse(file_path_or_obj, content)

\* openmic2018 Track.vggish: open(self.vggish_path) without a None test
vggish(vggish_path, content) ==
    IF vggish_path = NonePath
    THEN Failed("TypeError", NonePath, {}, FALSE)
    ELSE open_and_parse(vggish_path, content)

\* cipi Track._check_embedding(fpath, file_type)
check_embedding(fpath, content) ==
    LET Check(embedding_path) ==
            IF content = "absent"
            THEN Failed("FileNotFoundError", embedding_path,
                        {embedding_path}, TRUE)
            ELSE Got(Value("embedding_path"), embedding_path)
    IN  IF fpath = NonePath
        THEN Failed("TypeError", NonePath, {}, FALSE)
        ELSE Check(fpath \o << "track_id_file_type.ext" >>)

\* compmusic_carnatic_rhythm Dataset._metadata
carnatic_metadata(metadata_path, content) ==
    IF content = "absent"
    THEN Failed("FileNotFoundError", metadata_path, {}, TRUE)
    ELSE Got(Value(content), metadata_path)

\* tinysol Track.__init__: _load_metadata returns None for a missing file
\* and the Track takes a dict of None fields
tinysol_track_metadata(metadata_path, content) ==
    IF content = "absent"
    THEN Got(Value("None fields"), metadata_path)
    ELSE Got(Value(content), metadata_path)

\* the function behind property p
compute(p, path, content) ==
    CASE p.load = "ballroom.load_audio" -> load_audio(path, content)
      [] p.load = "io.coerce_to_string_io" ->
             coerce_to_string_io(path, content)
      [] p.load = "jtd.coerce_to_string_io_multiple_args" ->
             coerce_to_string_io_multiple_args(path, content)
      [] p.load = "openmic2018.vggish" -> vggish(path, content)
      [] p.load = "cipi._check_embedding" -> check_embedding(path, content)
      [] p.load = "compmusic_carnatic_rhythm._metadata" ->
             carnatic_metadata(path, content)
      [] OTHER -> tinysol_track_metadata(path, content)

NoMemo == [set |-> FALSE, val |-> NoneValue]

NoAccess ==
    [prop |-> "", exc |-> "none", val |-> NoneValue, opened |-> NonePath,
     names |-> {}, hint |-> FALSE, memo |-> NoMemo, path |-> NonePath,
     file |-> "absent"]

NoAccesses ==
    /\ loader = "none"
    /\ paths = << >>
    /\ roleFiles = << >>
    /\ cache = << >>
    /\ nCalls = << >>
    /\ access = NoAccess
    /\ nAccess = 0

(***************************************************************************)
(* beatles.fix_newpoint: the beat positions of an annotation file, where   *)
(* some lines carry 'New Point' instead of the position in the bar.        *)
(* Python indices start at 0, the positions of a sequence at 1.            *)
(***************************************************************************)
\* Length of the longest array of beat positions explored.
MaxBeats == 4

NewPoint == "New Point"

Numerals == << "0", "1", "2", "3", "4" >>

\* int(s) of a numeral
int(s) == (CHOOSE k \in 1..Len(Numerals) : Numerals[k] = s) - 1

\* str(n)
str(n) == Numerals[n + 1]

\* np.where(beat_positions == 'New Point')[0], in ascending order
Where(a) ==
    LET at == {k \in 1..Len(a) : a[k] = NewPoint}
        RECURSIVE Ascending(_)
        Ascending(rest) ==
            IF rest = {} THEN << >>
            ELSE LET Least(k) == << k >> \o Ascending(rest \ {k})
                 IN  Least(CHOOSE k \in rest : \A j \in rest : k <= j)
    IN  Ascending(at)

\* beat_positions[i - 1] for the last index i: index -1 is the last element
Before(a, k) == IF k > 1 THEN a[k - 1] ELSE a[Len(a)]

\* the body of `for i in idxs`
ForBody(a, k) ==
    IF k < Len(a)
    THEN IF a[k + 1] # NewPoint
         THEN [a EXCEPT ![k] = str((int(a[k + 1]) - 1) % 4)]
         ELSE a
    ELSE IF Before(a, k) # NewPoint
         THEN [a EXCEPT ![k] = str((int(Before(a, k)) + 1) % 4)]
         ELSE a

RECURSIVE ForLoop(_, _)
ForLoop(a, idxs) ==
    IF idxs = << >> THEN a ELSE ForLoop(ForBody(a, Head(idxs)), Tail(idxs))

ZeroToFour_kept(a) == a

\* beat_positions[beat_positions == '0'] = '4'
ZeroToFour(a) == [k \in 1..Len(a) |-> IF a[k] = "0" THEN "4" ELSE a[k]]

\* the arrays _load_beats can hand over
BeatArrays ==
    UNION {[1..n -> {NewPoint, "1", "2", "3", "4"}] : n \in 0..MaxBeats}

NoNewpoint ==
    /\ beat_positions = << >>
    /\ given = << >>
    /\ pc = "idle"

(***************************************************************************)
(* The module-level loaders salami and medleydb_pitch: load_track reads    *)
(* the metadata through a global that holds what _load_metadata returned   *)
(* last, None or a dict with a 'data_home' entry.                          *)
(***************************************************************************)
\* Number of load_track calls explored per behaviour.
MaxLoadTracks == 3

LegacyHomes == {"d1", "d2"}

\* SALAMI_INDEX / MEDLEYDB_PITCH_INDEX, and an id that is in neither
LegacyIndex == {"t1", "t2"}

LegacyIds == LegacyIndex \cup {"zz"}

\* metadata files: absent, with a row for every track, with t2 missing
MetadataContents == {"absent", "rows t1 t2", "rows t1"}

RowsOf(content) == IF content = "rows t1 t2" THEN {"t1", "t2"} ELSE {"t1"}

NoMetadata == [none |-> TRUE, data_home |-> "", rows |-> {}, of |-> ""]

\* _load_metadata(data_home) of either module
legacy_load_metadata(data_home) ==
    IF metadataFiles[data_home] = "absent"
    THEN NoMetadata
    ELSE [none |-> FALSE, data_home |-> data_home,
          rows |-> RowsOf(metadataFiles[data_home]),
          of |-> metadataFiles[data_home]]

\* _reload_metadata(data_home): the global gets what _load_metadata returns
reload_metadata(data_home) == legacy_load_metadata(data_home)

LoadTrackOut(global, exc, from, reads) ==
    [cache |-> global, exc |-> exc, from |-> from, reads |-> reads]

\* load_track that reloads only when the global is None
load_track_reload_if_none(global, track_id, data_home) ==
    LET Build(c, reads) ==
            IF c.none
            THEN LoadTrackOut(c, "EnvironmentError", NoMetadata, reads)
            ELSE IF legacyModule = "medleydb_pitch" /\ track_id \notin c.rows
            THEN LoadTrackOut(c, "KeyError", NoMetadata, reads)
            ELSE LoadTrackOut(c, "none", c, reads)
    IN  IF track_id \notin LegacyIndex
        THEN LoadTrackOut(global, "ValueError", NoMetadata, 0)
        ELSE IF global.none
        THEN Build(reload_metadata(data_home), 1)
        ELSE Build(global, 0)

\* salami.load_track / medleydb_pitch.load_track (track_id, data_home):
\* the new value of the global, the exception, the metadata dict the track
\* was built from, the number of _load_metadata calls
load_track(global, track_id, data_home) ==
    LET Build(c, reads) ==
            IF c.none
            THEN LoadTrackOut(c, "EnvironmentError", NoMetadata, reads)
            ELSE IF legacyModule = "medleydb_pitch" /\ track_id \notin c.rows
            THEN LoadTrackOut(c, "KeyError", NoMetadata, reads)
            ELSE LoadTrackOut(c, "none", c, reads)
    IN  IF track_id \notin LegacyIndex
        THEN LoadTrackOut(global, "ValueError", NoMetadata, 0)
        ELSE IF global.none \/ global.data_home # data_home
        THEN Build(reload_metadata(data_home), 1)
        ELSE Build(global, 0)

NoLoadTrack ==
    [track_id |-> "", data_home |-> "", exc |-> "none", from |-> NoMetadata,
     reads |-> 0, before |-> NoMetadata]

NoLegacy ==
    /\ legacyModule = "none"
    /\ metadataFiles = << >>
    /\ MODULE_METADATA = NoMetadata
    /\ loadTrack = NoLoadTrack
    /\ nLoadTracks = 0

(***************************************************************************)
(* scripts/update_index.py: rewrites an index file into the format with    *)
(* 'version', 'tracks' and 'metadata'.  A dict is a function on its keys.  *)
(***************************************************************************)
\* Number of update_index runs and metadata changes explored per behaviour.
MaxUpdates == 3

UpdatedModules == {"beatles", "gtzan_genre", "salami"}

\* get_metadata_paths(module): None, or a dict name -> relative path
get_metadata_paths(module) ==
    IF module = "salami"
    THEN [none |-> FALSE,
          paths |-> [metadata |->
                        "salami-data-public-hierarchy-corrections/metadata/metadata.csv"]]
    ELSE [none |-> TRUE, paths |-> << >>]

\* get_dataset_version(module)
get_dataset_version(module) ==
    CASE module = "beatles" -> "1.2"
      [] module = "salami" -> "2.0-corrected"
      [] OTHER -> "None"

\* the dict comprehension: name -> [path, md5(join(data_home, path))]
metadata_checksums(metadata_files, sum) ==
    IF metadata_files.none
    THEN [none |-> TRUE, sums |-> << >>]
    ELSE [none |-> FALSE,
          sums |-> [key \in DOMAIN metadata_files.paths |->
                       << metadata_files.paths[key], sum >>]]

\* the body of the loop of update_index for one index file: the dict that
\* json.dump writes
update_index(module, old_index, sum) ==
    LET Written(tracks) ==
            [version |-> get_dataset_version(module),
             tracks |-> tracks,
             metadata |-> metadata_checksums(get_metadata_paths(module), sum)]
    IN  Written(IF "tracks" \in DOMAIN old_index
                THEN old_index["tracks"]
                ELSE old_index)

OldTracks == [t1 |-> "entry 1", t2 |-> "entry 2"]

\* index files: the old flat format, and the new format without and with
\* the 'tables' and 'multitracks' sections of the header comment
IndexJsons(module, sum) ==
    LET New == update_index(module, OldTracks, sum)
    IN  {OldTracks, New,
         [k \in DOMAIN New \cup {"tables"} |->
             IF k = "tables" THEN "table entries" ELSE New[k]],
         [k \in DOMAIN New \cup {"multitracks"} |->
             IF k = "multitracks" THEN "multitrack entries" ELSE New[k]]}

NoUpdate == [ran |-> FALSE, before |-> << >>, changed |-> FALSE]

NoUpdates ==
    /\ indexModule = "none"
    /\ indexJson = << >>
    /\ metadataSum = ""
    /\ lastUpdate = NoUpdate
    /\ nUpdates = 0

(***************************************************************************)
(* track.MultiTrack as tests/test_track.py builds it: tracks a, b, c, each *)
(* with a signal of the same shape.  Samples are whole numbers, weights    *)
(* are counted in tenths (5 is 0.5), and a mixed sample is the exact       *)
(* fraction num / den.                                                     *)
(***************************************************************************)
\* Number of get_target / get_random_target calls explored per behaviour.
MaxMixes == 2

\* number of samples of a signal (the tests use the shape (100, 2))
SignalLen == 2

TrackKeys == << "a", "b", "c" >>

SignalChoices == { << 1, 1 >>, << 1, -1 >>, << -1, 0 >> }

\* the weights np.random.uniform may return, in tenths: 0.1 0.3 0.4 1.0 5.0
WeightGrid == {1, 3, 4, 10, 50}

\* lists of distinct track keys of length n
KeyLists(n) ==
    {ks \in [1..n -> {"a", "b", "c"}] :
        \A i, j \in 1..n : i # j => ks[i] # ks[j]}

RECURSIVE Total(_)
Total_one(w) == 10

\* sum of the weights
Total(w) == IF w = << >> THEN 0 ELSE Head(w) + Total(Tail(w))

RECURSIVE Dot(_, _, _)
\* sum over the tracks of weight times sample j
Dot(sigs, w, j) ==
    IF sigs = << >> THEN 0
    ELSE Head(w) * Head(sigs)[j] + Dot(Tail(sigs), Tail(w), j)

\* the signals of the tracks named by track_keys
SignalsOf(track_keys) ==
    [i \in 1..Len(track_keys) |-> signals[track_keys[i]]]

\* np.ones(len(track_keys)), in tenths
Ones(track_keys) == [i \in 1..Len(track_keys) |-> 10]

\* the mean of the tracks, whatever the weights
get_target_unweighted(track_keys, weights) ==
    LET Average(sigs, w) ==
            [j \in 1..SignalLen |->
                [num |-> Dot(sigs, w, j), den |-> Total(w)]]
    IN  Average(SignalsOf(track_keys), Ones(track_keys))

\* MultiTrack.get_target(track_keys, weights=None): the weighted average
\* of the tracks' signals, every weight 1.0 when weights is None
get_target(track_keys, weights) ==
    LET Average(sigs, w) ==
            [j \in 1..SignalLen |->
                [num |-> Dot(sigs, w, j), den |-> Total(w)]]
    IN  Average(SignalsOf(track_keys),
                IF weights.none THEN Ones(track_keys) ELSE weights.items)

Smaller(m, n) == IF m < n THEN m ELSE n

RandomTracks_all(n_tracks) == {TrackKeys}

\* the tracks get_random_target may draw: all of them when n_tracks is None
\* or not below their number, else n_tracks distinct ones
RandomTracks(n_tracks) ==
    IF n_tracks.none \/ n_tracks.val >= Len(TrackKeys)
    THEN {TrackKeys}
    ELSE KeyLists(n_tracks.val)

\* the weights it may draw for k tracks: uniform in [min_weight, max_weight]
RandomWeights(k, min_weight, max_weight) ==
    [1..k -> {w \in WeightGrid : min_weight <= w /\ w <= max_weight}]

NoMix ==
    [fn |-> "", keys |-> << >>, weights |-> NoneGiven, out |-> << >>,
     n_tracks |-> [none |-> TRUE, val |-> 0], min_weight |-> 0,
     max_weight |-> 0, drawn |-> << >>]

NoMixes ==
    /\ signals = << >>
    /\ mix = NoMix
    /\ nMixes = 0

NoLater == NoNewpoint /\ NoLegacy /\ NoUpdates /\ NoMixes

(***************************************************************************)
(* State machine: one Dataset instance, used by a single thread, and the   *)
(* files it reads, which may change between two operations.                *)
(***************************************************************************)
Init ==
    /\ dataHome \in DataHomes
    /\ indexFile \in IndexFiles
    /\ metaFile \in MetaFiles
    /\ files \in FileStates
    /\ index = Unset
    /\ metadata = UnsetMeta
    /\ nParse = 0
    /\ nLoadMetadata = 0
    /\ parsed = << >>
    /\ metaCallers = {}
    /\ track = NoTrack
    /\ result = NoResult
    /\ lastValid = NoValid
    /\ prevValid = NoValid
    /\ steps = 0
    /\ fsChanges = 0
    /\ NoDownloads
    /\ NoAccesses
    /\ NoLater

\* the heap an operation leaves becomes the state of the Dataset
Commit(h, op) ==
    /\ index' = h.index
    /\ metadata' = h.metadata
    /\ nParse' = h.nParse
    /\ nLoadMetadata' = h.nMeta
    /\ parsed' = h.parsed
    /\ metaCallers' = IF h.nMeta > nLoadMetadata
                      THEN metaCallers \cup {op} ELSE metaCallers
    /\ steps' = steps + 1
    /\ UNCHANGED << envVars, fsChanges, downloadVars, propertyVars,
                    laterVars >>

\* dataset[track_id]
Lookup(track_id) ==
    /\ steps < MaxOps
    /\ LET Done(g) ==
               /\ Commit(g.h, "track")
               /\ track' = IF g.exc = "none" THEN g.val ELSE track
               /\ result' = [NoResult EXCEPT !.op = "track",
                                             !.arg = track_id, !.exc = g.exc]
       IN  Done(getitem(Heap, track_id))
    /\ UNCHANGED << lastValid, prevValid >>

\* dataset.load(verbose)
Load(verbose) ==
    /\ steps < MaxOps
    /\ LET Done(l) ==
               /\ Commit(l.h, "load")
               /\ result' = [NoResult EXCEPT
                                 !.op = "load",
                                 !.arg = IF verbose THEN "verbose" ELSE "quiet",
                                 !.exc = l.exc,
                                 !.ids = TrackIdsOf(l.val),
                                 !.tracks = l.val,
                                 !.alt = load(Heap, ~verbose).val]
       IN  Done(load(Heap, verbose))
    /\ UNCHANGED << track, lastValid, prevValid >>

\* dataset.track_ids()
TrackIds ==
    /\ steps < MaxOps
    /\ LET Done(t) ==
               /\ Commit(t.h, "track_ids")
               /\ result' = [NoResult EXCEPT !.op = "track_ids",
                                             !.exc = t.exc, !.ids = t.val]
       IN  Done(track_ids(Heap))
    /\ UNCHANGED << track, lastValid, prevValid >>

\* dataset.validate()
Validate ==
    /\ steps < MaxOps
    /\ LET Done(v) ==
               /\ Commit(v.h, "validate")
               /\ result' = [NoResult EXCEPT !.op = "validate",
                                             !.exc = v.exc,
                                             !.missing = v.missing,
                                             !.invalid = v.invalid]
               /\ lastValid' = IF v.exc = "none"
                               THEN [done |-> TRUE, missing |-> v.missing,
                                     invalid |-> v.invalid]
                               ELSE lastValid
               /\ prevValid' = IF v.exc = "none" THEN lastValid ELSE prevValid
       IN  Done(validate(Heap))
    /\ UNCHANGED track

\* access to a metadata-backed property of the Track a lookup returned:
\* the Track was given its metadata dict at construction
TrackProperty ==
    /\ steps < MaxOps
    /\ track.live
    /\ Commit(Heap, "property")
    /\ result' = [NoResult EXCEPT !.op = "property", !.arg = track.id]
    /\ UNCHANGED << track, lastValid, prevValid >>

\* the environment rewrites, creates or deletes a file
FsStep ==
    /\ fsChanges < MaxFsChanges
    /\ fsChanges' = fsChanges + 1
    /\ result' = [NoResult EXCEPT !.op = "fs"]
    /\ lastValid' = NoValid
    /\ prevValid' = NoValid
    /\ UNCHANGED << dataHome, index, metadata, nParse, nLoadMetadata, parsed,
                    metaCallers, track, steps, downloadVars, propertyVars,
                    laterVars >>

ChangeFile(n, c) ==
    /\ c # files[n]
    /\ files' = [files EXCEPT ![n] = c]
    /\ FsStep
    /\ UNCHANGED << indexFile, metaFile >>

ChangeMetaFile(m) ==
    /\ m # metaFile
    /\ metaFile' = m
    /\ FsStep
    /\ UNCHANGED << indexFile, files >>

ChangeIndexFile(f) ==
    /\ f # indexFile
    /\ indexFile' = f
    /\ FsStep
    /\ UNCHANGED << metaFile, files >>

Next ==
    \/ \E t \in LookupIds : Lookup(t)
    \/ \E verbose \in BOOLEAN : Load(verbose)
    \/ TrackIds
    \/ Validate
    \/ TrackProperty
    \/ \E n \in FileNames, c \in Contents : ChangeFile(n, c)
    \/ \E m \in MetaFiles : ChangeMetaFile(m)
    \/ \E f \in IndexFiles : ChangeIndexFile(f)

Spec == Init /\ [][Next]_vars

(***************************************************************************)
(* Download calls                                                          *)
(***************************************************************************)
\* the world a call leaves, its outcome and its call log become the state
Finish(fn, force, cleanup, env, args, o) ==
    /\ nDownloads < MaxDownloads
    /\ archive' = o.w.archive
    /\ dirs' = o.w.dirs
    /\ nTransfers' = o.w.nTransfers
    /\ lastCall' = [fn |-> fn, force |-> force, cleanup |-> cleanup,
                    env |-> env, exc |-> o.exc, val |-> o.val,
                    log |-> o.w.log,
                    transfers |-> o.w.nTransfers - nTransfers,
                    before |-> dirs, args |-> args]
    /\ previous' = [fn |-> lastCall.fn, force |-> lastCall.force,
                    exc |-> lastCall.exc]
    /\ nDownloads' = nDownloads + 1
    /\ UNCHANGED << remotes, datasetVars, propertyVars, laterVars >>

\* dataset.download(force_overwrite, cleanup)
DatasetDownload(force_overwrite, cleanup, env) ==
    Finish("Dataset.download", force_overwrite, Given(cleanup), env, NoArgs,
           download(World, env, force_overwrite, cleanup))

\* salami.download(data_home, force_overwrite)
SalamiDownload(force_overwrite, env) ==
    Finish("salami.download", force_overwrite, "True", env, NoArgs,
           salami_download(World, env, dataHome, force_overwrite))

\* beatles.download(data_home, clobber)
BeatlesDownload(clobber, env) ==
    Finish("beatles.download", clobber, "True", env, NoArgs,
           beatles_download(World, env, dataHome, clobber))

\* download_utils.download_zip_file(remote, save_dir, force_overwrite[, cleanup])
DownloadZipFile(force_overwrite, cleanup, env) ==
    Finish("download_zip_file", force_overwrite, cleanup, env, NoArgs,
           download_zip_file(World, env, ZipRemote, dataHome, force_overwrite,
                             [NoKw EXCEPT !.cleanup = cleanup]))

\* download_utils.download_tar_file(remote, save_dir, force_overwrite[, cleanup])
DownloadTarFile(force_overwrite, cleanup, env) ==
    Finish("download_tar_file", force_overwrite, cleanup, env, NoArgs,
           download_tar_file(World, env, TarRemote, dataHome, force_overwrite,
                             [NoKw EXCEPT !.cleanup = cleanup]))

\* download_utils.downloader(save_dir, ...)
Downloader(args, env) ==
    Finish("downloader", Flag(args.force_overwrite, FALSE), args.cleanup, env,
           args, downloader(World, env, dataHome, args))

\* a Dataset on an empty data_home, on which nothing was called yet
DatasetIdle ==
    /\ dataHome = AbsHome
    /\ indexFile = NoFile
    /\ metaFile = [exists |-> FALSE, ids |-> {}]
    /\ files = [n \in FileNames |-> "absent"]
    /\ index = Unset
    /\ metadata = UnsetMeta
    /\ nParse = 0
    /\ nLoadMetadata = 0
    /\ parsed = << >>
    /\ metaCallers = {}
    /\ track = NoTrack
    /\ result = NoResult
    /\ lastValid = NoValid
    /\ prevValid = NoValid
    /\ steps = 0
    /\ fsChanges = 0

InitDownload ==
    /\ DatasetIdle
    /\ NoLater
    /\ remotes \in RemoteSets
    /\ archive = [p \in ArchivePaths |-> Absent]
    /\ dirs = [p \in DirPaths |-> NoDir]
    /\ nTransfers = 0
    /\ lastCall = NoLast
    /\ previous = NoPrevious
    /\ nDownloads = 0
    /\ NoAccesses

NextDownload ==
    \/ \E f \in BOOLEAN, c \in BOOLEAN, env \in Envs : DatasetDownload(f, c, env)
    \/ \E f \in BOOLEAN, env \in Envs : SalamiDownload(f, env)
    \/ \E f \in BOOLEAN, env \in Envs : BeatlesDownload(f, env)
    \/ \E f \in BOOLEAN, c \in {"omitted", "True"}, env \in Envs :
           DownloadZipFile(f, c, env)
    \/ \E f \in BOOLEAN, c \in {"omitted", "True"}, env \in Envs :
           DownloadTarFile(f, c, env)
    \/ \E args \in DownloaderArgs, env \in Envs : Downloader(args, env)

SpecDownload == InitDownload /\ [][NextDownload]_vars

(***************************************************************************)
(* Property accesses                                                       *)
(***************************************************************************)
\* track.<name> (for tinysol: Track(track_id, data_home)); cached_property
\* stores the value a first computation returned and hands it out afterwards
Access(name) ==
    /\ nAccess < MaxAccesses
    /\ name \in PropsOf(loader)
    /\ LET Done(p, memo, r) ==
               /\ access' = [prop |-> name, exc |-> r.exc, val |-> r.val,
                             opened |-> r.opened, names |-> r.names,
                             hint |-> r.hint, memo |-> memo,
                             path |-> paths[name], file |-> roleFiles[name]]
               /\ cache' = IF p.cached /\ ~memo.set /\ r.exc = "none"
                           THEN [cache EXCEPT ![name] =
                                     [set |-> TRUE, val |-> r.val]]
                           ELSE cache
               /\ nCalls' = IF (p.cached /\ memo.set) \/ r.exc # "none"
                            THEN nCalls
                            ELSE [nCalls EXCEPT ![name] = @ + 1]
           Get(p, memo) ==
               Done(p, memo,
                    IF p.cached /\ memo.set
                    THEN Got(memo.val, NonePath)
                    ELSE compute(p, paths[name], roleFiles[name]))
       IN  Get(Prop(loader, name), cache[name])
    /\ nAccess' = nAccess + 1
    /\ UNCHANGED << loader, paths, roleFiles, datasetVars, downloadVars,
                    laterVars >>

\* the file behind a property is rewritten, created or deleted
ChangeRoleFile(name, c) ==
    /\ nAccess < MaxAccesses
    /\ name \in PropsOf(loader)
    /\ c # roleFiles[name]
    /\ roleFiles' = [roleFiles EXCEPT ![name] = c]
    /\ nAccess' = nAccess + 1
    /\ UNCHANGED << loader, paths, cache, nCalls, access, datasetVars,
                    downloadVars, laterVars >>

InitProperty ==
    /\ DatasetIdle
    /\ NoDownloads
    /\ NoLater
    /\ loader \in Loaders
    /\ paths \in {[n \in PropsOf(loader) |-> PathOf(n)]}
                     \cup {[n \in PropsOf(loader) |-> NonePath]
                           : l \in {loader} \cap TrackLoaders}
    /\ roleFiles \in {[n \in PropsOf(loader) |-> c] : c \in {"absent", "c1"}}
    /\ cache = [n \in PropsOf(loader) |-> NoMemo]
    /\ nCalls = [n \in PropsOf(loader) |-> 0]
    /\ access = NoAccess
    /\ nAccess = 0

PropertyNames == {p.prop : p \in Properties}

NextProperty ==
    \/ \E name \in PropertyNames : Access(name)
    \/ \E name \in PropertyNames, c \in Contents : ChangeRoleFile(name, c)

SpecProperty == InitProperty /\ [][NextProperty]_vars

(***************************************************************************)
(* fix_newpoint(beat_positions), one step per turn of its while loop       *)
(***************************************************************************)
\* np.any(beat_positions == 'New Point') holds: one run of the for loop
WhilePass ==
    /\ pc = "while"
    /\ \E k \in 1..Len(beat_positions) : beat_positions[k] = NewPoint
    /\ beat_positions' = ForLoop(beat_positions, Where(beat_positions))
    /\ UNCHANGED << given, pc, datasetVars, downloadVars, propertyVars,
                    legacyVars, updateVars, mixVars >>

\* the loop is left: '0' becomes '4' and the array is returned
Return ==
    /\ pc = "while"
    /\ \A k \in 1..Len(beat_positions) : beat_positions[k] # NewPoint
    /\ beat_positions' = ZeroToFour(beat_positions)
    /\ pc' = "returned"
    /\ UNCHANGED << given, datasetVars, downloadVars, propertyVars,
                    legacyVars, updateVars, mixVars >>

InitNewpoint ==
    /\ DatasetIdle
    /\ NoDownloads
    /\ NoAccesses
    /\ NoLegacy
    /\ NoUpdates
    /\ NoMixes
    /\ given \in BeatArrays
    /\ beat_positions = given
    /\ pc = "while"

NextNewpoint == WhilePass \/ Return

SpecNewpoint == InitNewpoint /\ [][NextNewpoint]_vars

\* the loop keeps running as long as its condition holds
FairNewpoint == SpecNewpoint /\ WF_vars(NextNewpoint)

(***************************************************************************)
(* load_track of the module-level loaders                                  *)
(***************************************************************************)
\* salami.load_track(track_id, data_home) or the medleydb_pitch one
LoadTrack(track_id, data_home) ==
    /\ nLoadTracks < MaxLoadTracks
    /\ LET Done(r) ==
               /\ MODULE_METADATA' = r.cache
               /\ loadTrack' = [track_id |-> track_id,
                                data_home |-> data_home, exc |-> r.exc,
                                from |-> r.from, reads |-> r.reads,
                                before |-> MODULE_METADATA]
       IN  Done(load_track(MODULE_METADATA, track_id, data_home))
    /\ nLoadTracks' = nLoadTracks + 1
    /\ UNCHANGED << legacyModule, metadataFiles, datasetVars, downloadVars,
                    propertyVars, newpointVars, updateVars, mixVars >>

InitLegacy ==
    /\ DatasetIdle
    /\ NoDownloads
    /\ NoAccesses
    /\ NoNewpoint
    /\ NoUpdates
    /\ NoMixes
    /\ legacyModule \in {"salami", "medleydb_pitch"}
    /\ metadataFiles \in [LegacyHomes -> MetadataContents]
    /\ MODULE_METADATA = NoMetadata
    /\ loadTrack = NoLoadTrack
    /\ nLoadTracks = 0

NextLegacy ==
    \E track_id \in LegacyIds, data_home \in LegacyHomes :
        LoadTrack(track_id, data_home)

SpecLegacy == InitLegacy /\ [][NextLegacy]_vars

(***************************************************************************)
(* Runs of scripts/update_index.py                                         *)
(***************************************************************************)
\* update_index([index_name]): the index file is read, rebuilt and written
UpdateIndex ==
    /\ nUpdates < MaxUpdates
    /\ indexJson' = update_index(indexModule, indexJson, metadataSum)
    /\ lastUpdate' = [ran |-> TRUE, before |-> indexJson,
                      changed |-> lastUpdate.changed]
    /\ nUpdates' = nUpdates + 1
    /\ UNCHANGED << indexModule, metadataSum, datasetVars, downloadVars,
                    propertyVars, newpointVars, legacyVars, mixVars >>

\* the metadata file under data_home is replaced
ChangeMetadata(sum) ==
    /\ nUpdates < MaxUpdates
    /\ sum # metadataSum
    /\ metadataSum' = sum
    /\ lastUpdate' = [lastUpdate EXCEPT !.changed = TRUE]
    /\ nUpdates' = nUpdates + 1
    /\ UNCHANGED << indexModule, indexJson, datasetVars, downloadVars,
                    propertyVars, newpointVars, legacyVars, mixVars >>

InitUpdate ==
    /\ DatasetIdle
    /\ NoDownloads
    /\ NoAccesses
    /\ NoNewpoint
    /\ NoLegacy
    /\ NoMixes
    /\ indexModule \in UpdatedModules
    /\ metadataSum \in {"c1", "c2"}
    /\ indexJson \in IndexJsons(indexModule, metadataSum)
    /\ lastUpdate = NoUpdate
    /\ nUpdates = 0

NextUpdate ==
    \/ UpdateIndex
    \/ \E sum \in {"c1", "c2", "c3"} : ChangeMetadata(sum)

SpecUpdate == InitUpdate /\ [][NextUpdate]_vars

(***************************************************************************)
(* Calls on a MultiTrack                                                   *)
(***************************************************************************)
\* mtrack.get_target(track_keys, weights)
GetTarget(track_keys, weights) ==
    /\ nMixes < MaxMixes
    /\ ~weights.none => Len(weights.items) = Len(track_keys)
    /\ mix' = [NoMix EXCEPT !.fn = "get_target", !.keys = track_keys,
                            !.weights = weights,
                            !.out = get_target(track_keys, weights)]
    /\ nMixes' = nMixes + 1
    /\ UNCHANGED << signals, datasetVars, downloadVars, propertyVars,
                    newpointVars, legacyVars, updateVars >>

\* mtrack.get_random_target(n_tracks, min_weight, max_weight): returns the
\* target, the tracks drawn and the weights drawn
GetRandomTarget(n_tracks, min_weight, max_weight) ==
    /\ nMixes < MaxMixes
    /\ \E tracks \in RandomTracks(n_tracks) :
           \E weights \in RandomWeights(Len(tracks), min_weight, max_weight) :
               mix' = [NoMix EXCEPT
                          !.fn = "get_random_target",
                          !.n_tracks = n_tracks,
                          !.min_weight = min_weight,
                          !.max_weight = max_weight,
                          !.keys = tracks,
                          !.weights = ListOf(weights),
                          !.drawn = weights,
                          !.out = get_target(tracks, ListOf(weights))]
    /\ nMixes' = nMixes + 1
    /\ UNCHANGED << signals, datasetVars, downloadVars, propertyVars,
                    newpointVars, legacyVars, updateVars >>

InitMix ==
    /\ DatasetIdle
    /\ NoDownloads
    /\ NoAccesses
    /\ NoNewpoint
    /\ NoLegacy
    /\ NoUpdates
    /\ signals \in [{"a", "b", "c"} -> SignalChoices]
    /\ mix = NoMix
    /\ nMixes = 0

\* the weight lists of the tests and of the example: [0.5, 0.2], [0.5, 5],
\* [0.5, 0.5], and no list
TargetWeights ==
    {NoneGiven, ListOf(<< 5, 2 >>), ListOf(<< 5, 50 >>), ListOf(<< 5, 5 >>),
     ListOf(<< 10 >>), ListOf(<< 2, 5, 50 >>)}

\* n_tracks: omitted, 1, 2, 5
NTracks ==
    {[none |-> TRUE, val |-> 0]} \cup
        {[none |-> FALSE, val |-> n] : n \in {1, 2, 5}}

NextMix ==
    \/ \E n \in 1..3 : \E track_keys \in KeyLists(n) :
           \E weights \in TargetWeights : GetTarget(track_keys, weights)
    \/ \E n_tracks \in NTracks :
           \E range \in {<< 3, 10 >>, << 1, 4 >>} :
               GetRandomTarget(n_tracks, range[1], range[2])

SpecMix == InitMix /\ [][NextMix]_vars

(***************************************************************************)
(* Properties                                                              *)
(***************************************************************************)
Range(seq) == {seq[i] : i \in 1..Len(seq)}

TrackIdSet(json) == KeySet(TracksOf(json))

Returned(op) == result.op = op /\ result.exc = "none"

\* the cached index is in the format the Dataset reads: {track_id: entry}
KeyedByTrackId ==
    index.set /\ \A i \in 1..Len(parsed) : parsed[i].kind = "entry"

\* C1: whenever a track lookup returns a Track, the path the Track holds for
\* each file role equals join(data_home, p), p being the relative path the
\* index file stores for that track and role -- also for a repeated lookup
\* and for a relative data_home.
C1_PathIsJoinOfDataHome ==
    Returned("track") =>
        \A c \in 1..Len(TrackCells(parsed, result.arg)) :
            TrackCells(index.val, result.arg)[c].path
                = join(dataHome, TrackCells(parsed, result.arg)[c].path)

\* C2: the cached index always equals the value parsed from the index file:
\* no lookup, load() or validate() writes into it.
C2_IndexNeverWritten == index.set => index.val = parsed

\* C3: with the metadata loaded and an index whose keys are the track ids,
\* a track lookup raises KeyError if and only if the id is not a track id of
\* the index, and returns a Track for every id that is one.
C3_KeyErrorIffAbsent ==
    (result.op = "track" /\ KeyedByTrackId /\ metadata.set) =>
        /\ (result.exc = "KeyError") <=> (result.arg \notin TrackIdSet(parsed))
        /\ (result.arg \in TrackIdSet(parsed)) => (result.exc = "none")

\* C4: load_metadata is never called during a track lookup or load().
C4_MetadataNotLoadedAtConstruction ==
    metaCallers \cap {"track", "load"} = {}

\* C5: on an index whose keys are the track ids, validate() returns its two
\* lists without raising, whatever files exist under data_home (none at all
\* included).
C5_ValidateNeverRaises ==
    (result.op = "validate" /\ KeyedByTrackId) => result.exc = "none"

\* C6: when validate() returns, every (track, role) entry of the index is
\* reported according to the file at join(data_home, relative_path): in
\* missing only if that file does not exist, in invalid only if it exists
\* with a digest other than the stored non-null checksum, in neither list
\* if it exists with the stored checksum; never in both lists.
C6_ValidateClassifies ==
    Returned("validate") =>
        \A t \in TrackIdSet(parsed) :
            \A c \in 1..Len(TrackCells(TracksOf(parsed), t)) :
                LET entry == TrackCells(TracksOf(parsed), t)[c]
                    f == join(dataHome, entry.path)
                    held == TrackCells(index.val, t)
                    reported == IF c \in 1..Len(held) THEN {held[c].path} ELSE {}
                    inMissing == reported \cap Range(result.missing) # {}
                    inInvalid == reported \cap Range(result.invalid) # {}
                IN  /\ ~(inMissing /\ inInvalid)
                    /\ ~exists(f) => (inMissing /\ ~inInvalid)
                    /\ (exists(f) /\ entry.sum # NullSum /\ md5(f) # entry.sum)
                          => (inInvalid /\ ~inMissing)
                    /\ (exists(f) /\ md5(f) = entry.sum)
                          => (~inMissing /\ ~inInvalid)

\* C7: a validate() that follows another validate() of the same Dataset with
\* no file-system change in between returns the same two lists.
C7_ValidateIdempotent ==
    (Returned("validate") /\ prevValid.done) =>
        /\ result.missing = prevValid.missing
        /\ result.invalid = prevValid.invalid

\* C8: for an index with the top-level keys version and tracks, track_ids()
\* returns the keys of the tracks mapping, in file order, and nothing else.
C8_TrackIdsAreTrackKeys ==
    (Returned("track_ids") /\ HasKeys(parsed, {"version", "tracks"})) =>
        result.ids = Keys(TracksOf(parsed))

\* C9: on one Dataset the index file is parsed at most once and
\* load_metadata is called at most once.
C9_ComputedAtMostOnce == nParse <= 1 /\ nLoadMetadata <= 1

\* C10: load_index returns an index only when the parsed JSON has both
\* top-level keys version and tracks, and an index access that fails does so
\* with a not-found error (no file) or a format error (a key is absent).
C10_LoadIndexChecksKeys ==
    /\ Returned("track_ids") => HasKeys(parsed, {"version", "tracks"})
    /\ (result.op = "track_ids" /\ result.exc # "none") =>
           result.exc \in {"FileNotFoundError", "FormatError"}

\* C11: when load() returns, for either value of verbose, the keys of the
\* mapping are track_ids() in the same order, the value kept for each id is
\* the Track a lookup of that id returns, and load() with the other value of
\* verbose returns the same mapping.
C11_LoadIsEveryLookup ==
    Returned("load") =>
        /\ result.ids = track_ids(Heap).val
        /\ \A k \in 1..Len(result.tracks) :
              /\ getitem(Heap, result.ids[k]).exc = "none"
              /\ getitem(Heap, result.ids[k]).val = result.tracks[k]
        /\ result.alt = result.tracks

C11_Witness ==
    /\ Returned("load")
    /\ result.arg = "quiet"
    /\ result.ids = << "t1", "t2" >>

\* C12: when validate() returns, every index entry whose stored checksum is
\* null is checked for presence only: if the file at
\* join(data_home, relative_path) exists, whatever its content, the entry is
\* in neither list, and if it does not exist the entry is in missing.
C12_NullChecksumPresenceOnly ==
    Returned("validate") =>
        \A t \in TrackIdSet(parsed) :
            \A c \in 1..Len(TrackCells(TracksOf(parsed), t)) :
                LET entry == TrackCells(TracksOf(parsed), t)[c]
                    f == join(dataHome, entry.path)
                    held == TrackCells(index.val, t)
                    reported == IF c \in 1..Len(held) THEN {held[c].path} ELSE {}
                    inMissing == reported \cap Range(result.missing) # {}
                    inInvalid == reported \cap Range(result.invalid) # {}
                IN  entry.sum = NullSum =>
                        /\ exists(f) => (~inMissing /\ ~inInvalid)
                        /\ ~exists(f) => (inMissing /\ ~inInvalid)

(***************************************************************************)
(* Properties of the download pipeline                                     *)
(***************************************************************************)
Handlers == {"download_zip_file", "download_tar_file"}

Unpackers == {"unzip", "untar"}

Ends(e, fn) == e.fn = fn /\ e.ev \in {"return", "raise"}

\* index of the event that ends the call logged at position i
EndOf(log, i) ==
    CHOOSE j \in (i + 1)..Len(log) :
        /\ Ends(log[j], log[i].fn)
        /\ \A k \in (i + 1)..(j - 1) : ~Ends(log[k], log[i].fn)

\* positions of the events `ev` of function fn strictly inside i..j
Inside(log, i, j, ev, fn) ==
    {k \in (i + 1)..(j - 1) : log[k].ev = ev /\ log[k].fn = fn}

\* number of calls in progress when the event at position k is logged
Depth(log, k) ==
    Cardinality({j \in 1..(k - 1) : log[j].ev = "call"})
        - Cardinality({j \in 1..(k - 1) : log[j].ev \in {"return", "raise"}})

\* C13: when download() returned and is called again, both times without
\* force_overwrite and whatever cleanup was, the second call transfers
\* nothing over the network and leaves the extracted content as it was.
C13_SecondDownloadTransfersNothing ==
    (/\ lastCall.fn \in {"Dataset.download", "salami.download"}
     /\ previous.fn = lastCall.fn
     /\ previous.exc = "none"
     /\ ~previous.force
     /\ ~lastCall.force)
    => (lastCall.transfers = 0 /\ dirs = lastCall.before)

\* C14: an archive that a download call fetched is removed only after an
\* extraction of it succeeded, never between the fetch and the end of the
\* extraction, and an archive whose extraction failed is still on disk
\* when the call ends.
C14_ArchiveRemovedOnlyAfterExtraction ==
    LET log == lastCall.log
    IN  /\ \A i \in 1..Len(log) :
              log[i].ev = "remove" =>
                  \/ \E j \in 1..(i - 1) :
                         log[j].ev = "extracted" /\ log[j].path = log[i].path
                  \/ ~\E j \in 1..(i - 1) :
                         /\ log[j].ev = "return"
                         /\ log[j].fn = "download_from_remote"
                         /\ log[j].path = log[i].path
        /\ \A i \in 1..Len(log) :
              (log[i].ev = "call" /\ log[i].fn \in Unpackers
                   /\ log[EndOf(log, i)].ev = "raise")
              => archive[log[i].path] # Absent

C14_Witness ==
    /\ lastCall.fn = "salami.download"
    /\ lastCall.force
    /\ lastCall.exc = "none"
    /\ \E i \in 1..Len(lastCall.log) :
           lastCall.log[i].ev = "remove" /\ lastCall.log[i].fn = "unzip"

\* C15: every call of download_zip_file / download_tar_file calls
\* download_from_remote exactly once, with its own (remote, destination,
\* force_overwrite); once that returned a path it calls unzip / untar
\* exactly once, on that path, into the same destination, with its own
\* cleanup (false when not given); it unpacks nothing before that or when
\* the download raised.
C15_HandlerDownloadsThenUnpacks ==
    LET log == lastCall.log
    IN  /\ \A i \in 1..Len(log) :
              (log[i].ev = "call" /\ log[i].fn \in Handlers) =>
                  LET j == EndOf(log, i)
                      unpacker == IF log[i].fn = "download_zip_file"
                                  THEN "unzip" ELSE "untar"
                      fetches == Inside(log, i, j, "call",
                                        "download_from_remote")
                      fetched == Inside(log, i, j, "return",
                                        "download_from_remote")
                      unpacks == UNION {Inside(log, i, j, "call", u)
                                        : u \in Unpackers}
                  IN  /\ Cardinality(fetches) = 1
                      /\ \A k \in fetches :
                             /\ log[k].remote = log[i].remote
                             /\ log[k].dest = log[i].dest
                             /\ log[k].force = log[i].force
                      /\ Cardinality(unpacks) = Cardinality(fetched)
                      /\ \A k \in unpacks, r \in fetched :
                             /\ k > r
                             /\ log[k].fn = unpacker
                             /\ log[k].path = log[r].path
                             /\ log[k].dest = log[i].dest
                             /\ log[k].cleanup = log[i].cleanup
        /\ (lastCall.fn \in Handlers /\ lastCall.cleanup = "omitted") =>
               \A k \in 1..Len(log) :
                   (log[k].ev = "call" /\ log[k].fn \in Unpackers)
                       => ~log[k].cleanup

C15_Witness ==
    /\ lastCall.fn = "download_tar_file"
    /\ lastCall.cleanup = "omitted"
    /\ lastCall.exc = "none"
    /\ lastCall.transfers = 1

\* number of positions of seq that satisfy being equal to x
Count(seq, x) == Cardinality({i \in 1..Len(seq) : seq[i] = x})

\* the remotes the downloader itself (not a handler) passed to function fn
PassedTo(log, fn) ==
    LET at == {k \in 1..Len(log) : /\ log[k].ev = "call"
                                   /\ log[k].fn = fn
                                   /\ Depth(log, k) = 1}
    IN  [at |-> at,
         count |-> [r \in AllRemotes |->
                        Cardinality({k \in at : log[k].remote = r})]]

\* C16: a downloader call that returns has called the zip handler once for
\* each remote of zip_downloads, the tar handler once for each remote of
\* tar_downloads and download_from_remote once for each remote of
\* file_downloads, none of them for a list that was not given; the
\* handlers got (remote, save_dir, force_overwrite, cleanup, use_subdir)
\* as the caller gave them (false when omitted), the plain downloads
\* (remote, save_dir, force_overwrite).
C16_DownloaderCallsEachOnce ==
    (lastCall.fn = "downloader" /\ lastCall.exc = "none") =>
        LET log == lastCall.log
            args == lastCall.args
            zips == PassedTo(log, "download_zip_file")
            tars == PassedTo(log, "download_tar_file")
            plain == PassedTo(log, "download_from_remote")
            force == Flag(args.force_overwrite, FALSE)
        IN  /\ \A r \in AllRemotes :
                   /\ zips.count[r] = Count(args.zip_downloads.items, r)
                   /\ tars.count[r] = Count(args.tar_downloads.items, r)
                   /\ plain.count[r] = Count(args.file_downloads.items, r)
            /\ \A k \in zips.at \cup tars.at :
                   /\ log[k].dest = dataHome
                   /\ log[k].force = force
                   /\ log[k].cleanup = Flag(args.cleanup, FALSE)
                   /\ log[k].subdir = Flag(args.use_subdir, FALSE)
            /\ \A k \in plain.at :
                   /\ log[k].dest = dataHome
                   /\ log[k].force = force

C16_Witness ==
    /\ lastCall.fn = "downloader"
    /\ lastCall.exc = "none"
    /\ Len(lastCall.args.zip_downloads.items) = 2
    /\ ~lastCall.args.tar_downloads.none
    /\ lastCall.args.cleanup = "True"
    /\ lastCall.args.use_subdir = "omitted"

\* C17: a download_from_remote call that transfers returns
\* join(destination, remote.filename) when the transfer succeeded and the
\* checksum matches, raises the I/O error when the server answered with an
\* error status, and raises another, integrity, error when the checksum of
\* what arrived differs from the declared one.
C17_DownloadFromRemoteOutcomes ==
    LET log == lastCall.log
        env == lastCall.env
    IN  \A i \in 1..Len(log) :
            (log[i].ev = "call" /\ log[i].fn = "download_from_remote") =>
                LET j == EndOf(log, i)
                    transferred ==
                        Inside(log, i, j, "transfer", log[i].fn) # {}
                IN  /\ log[j].ev = "return" =>
                           log[j].path =
                               join(log[i].dest, log[i].remote.filename)
                    /\ (transferred /\ env.status = "error") =>
                           (log[j].ev = "raise" /\ log[j].exc = "IOError")
                    /\ (transferred /\ env.status = "ok" /\ env.corrupt) =>
                           /\ log[j].ev = "raise"
                           /\ log[j].exc = "DownloadIntegrityError"
                           /\ log[j].exc # "IOError"
                    /\ (transferred /\ env.status = "ok" /\ ~env.corrupt) =>
                           log[j].ev = "return"

C17_Witness ==
    /\ lastCall.exc = "DownloadIntegrityError"
    /\ lastCall.env.corrupt
    /\ previous.exc = "IOError"
    /\ nTransfers = 2

\* position of the top-level call at k among the top-level calls of the log
Rank(log, k) ==
    Cardinality({j \in 1..k : log[j].ev = "call" /\ Depth(log, j) = 1})

\* Dataset.download's choice of handler for a remote
HandlerFor(remote) ==
    IF InUrl(".zip", remote.url) THEN "download_zip_file"
    ELSE IF InUrl(".tar.gz", remote.url) THEN "download_tar_file"
    ELSE "download_from_remote"

\* C28: in a Dataset.download call, data_home exists before the first
\* transfer; the handlers are called for the entries of remotes in
\* declaration order, one call per entry (all entries when the call
\* returns, the entries up to the one whose handler raised otherwise); the
\* handler is the zip one when the URL contains '.zip', else the tar one
\* when it contains '.tar.gz', else the plain download, after which nothing
\* is unpacked; every handler gets force_overwrite, the two unpacking
\* handlers get cleanup.
C28_DownloadDispatchesEachRemoteOnce ==
    lastCall.fn = "Dataset.download" =>
        LET log == lastCall.log
            top == {k \in 1..Len(log) :
                        log[k].ev = "call" /\ Depth(log, k) = 1}
        IN  /\ \A k \in 1..Len(log) :
                   log[k].ev = "transfer" =>
                       \/ lastCall.before[dataHome].exists
                       \/ \E j \in 1..(k - 1) :
                              log[j].ev = "makedirs" /\ log[j].path = dataHome
            /\ Cardinality(top) <= Len(remotes)
            /\ lastCall.exc = "none" => Cardinality(top) = Len(remotes)
            /\ \A k \in top :
                   /\ log[k].remote = remotes[Rank(log, k)]
                   /\ log[k].fn = HandlerFor(log[k].remote)
                   /\ log[k].dest = dataHome
                   /\ log[k].force = lastCall.force
                   /\ log[k].fn \in Handlers =>
                          log[k].cleanup = Flag(lastCall.cleanup, FALSE)
                   /\ log[k].fn = "download_from_remote" =>
                          \A j \in 1..Len(log) :
                              log[j].ev \in {"extracted", "remove"} =>
                                  log[j].path #
                                      join(dataHome, log[k].remote.filename)

\* a second download, forced, of three remotes that returned
C28_Witness ==
    /\ lastCall.fn = "Dataset.download"
    /\ lastCall.exc = "none"
    /\ Len(remotes) = 3
    /\ lastCall.transfers = 3
    /\ lastCall.force
    /\ nDownloads = 2

\* C30: when salami.download(data_home, force_overwrite=False) returns
\* without error, the SALAMI annotation archive has been extracted under
\* the dataset directory.
C30_SalamiDownloadLeavesAnnotations ==
    (/\ lastCall.fn = "salami.download"
     /\ ~lastCall.force
     /\ lastCall.exc = "none")
    => SALAMI_ANNOT_REMOTE.checksum
           \in dirs[join(dataHome, SALAMI_DIR)].trees

(***************************************************************************)
(* Track properties (SpecProperty)                                         *)
(***************************************************************************)
\* the properties of the cited Track classes that are declared with
\* cached_property (all but audio)
CachedTrackProps == PropsOf(loader) \ {"audio"}

C19_AbsentRoleGivesNone ==
    (/\ loader \in {"ballroom", "jtd", "openmic2018"}
     /\ access.prop # ""
     /\ access.path = NonePath) =>
        /\ access.exc = "none"
        /\ access.val = NoneValue

\* C20 (as stated): in cipi, compmusic_carnatic_rhythm and tinysol, an access
\* that needs a file missing on disk fails with a not-found error whose
\* message names the missing path and suggests to download.
C20_MissingFileRaisesNotFound ==
    (/\ loader \in {"cipi", "compmusic_carnatic_rhythm", "tinysol"}
     /\ access.prop # ""
     /\ access.path # NonePath
     /\ access.file = "absent"
     /\ ~access.memo.set) =>
        /\ access.exc = "FileNotFoundError"
        /\ access.opened \in access.names
        /\ access.hint

(***************************************************************************)
(* fix_newpoint (SpecNewpoint, FairNewpoint)                               *)
(***************************************************************************)
\* C26: fix_newpoint terminates for every array of beat positions.
C26_FixNewpointTerminates == <>(pc = "returned")

\* the position before p in the bar, cyclically in 1..4
CyclicPredecessor(p) == IF p = "1" THEN "4" ELSE str(int(p) - 1)

CyclicSuccessor(p) == IF p = "4" THEN "1" ELSE str(int(p) + 1)

\* C27: when fix_newpoint returns, the array has the length it had, holds
\* no 'New Point' and no '0', its numeric entries are as given, each
\* 'New Point' that was not the last entry holds the cyclic predecessor of
\* the entry after it (so a run is filled from right to left), and a last
\* 'New Point' holds the cyclic successor of the entry before it.
C27_NewPointsFilledFromNeighbours ==
    pc = "returned" =>
        /\ Len(beat_positions) = Len(given)
        /\ \A k \in 1..Len(given) :
               /\ beat_positions[k] \in {"1", "2", "3", "4"}
               /\ given[k] # NewPoint => beat_positions[k] = given[k]
               /\ (given[k] = NewPoint /\ k < Len(given)) =>
                      beat_positions[k] =
                          CyclicPredecessor(beat_positions[k + 1])
               /\ (given[k] = NewPoint /\ k = Len(given) /\ k > 1) =>
                      beat_positions[k] =
                          CyclicSuccessor(beat_positions[k - 1])

\* a run of two 'New Point' before a '1' and a last 'New Point' after it
C27_Witness ==
    /\ pc = "returned"
    /\ given = << NewPoint, NewPoint, "1", NewPoint >>
    /\ beat_positions = << "3", "4", "1", "2" >>

(***************************************************************************)
(* The module-level metadata cache (SpecLegacy)                            *)
(***************************************************************************)
\* C25: a load_track(id, data_home=d) that returns has built the track
\* from the metadata file under d, and leaves a global whose data_home
\* entry is d.
C25_LoadTrackUsesItsDataHome ==
    (loadTrack.track_id # "" /\ loadTrack.exc = "none") =>
        /\ ~MODULE_METADATA.none
        /\ MODULE_METADATA.data_home = loadTrack.data_home
        /\ loadTrack.from.data_home = loadTrack.data_home
        /\ loadTrack.from.of = metadataFiles[loadTrack.data_home]

\* a call that returned for one data_home while the global held the
\* metadata of the other
C25_Witness ==
    /\ loadTrack.exc = "none"
    /\ loadTrack.track_id # ""
    /\ ~loadTrack.before.none
    /\ loadTrack.before.data_home # loadTrack.data_home
    /\ metadataFiles["d1"] # metadataFiles["d2"]

\* C29: a load_track call that fails with EnvironmentError leaves the
\* global as it was before the call.
C29_FailedLoadTrackKeepsCache ==
    loadTrack.exc = "EnvironmentError" => MODULE_METADATA = loadTrack.before

(***************************************************************************)
(* scripts/update_index.py (SpecUpdate)                                    *)
(***************************************************************************)
\* C24: a run of update_index on an index file that is already in the new
\* format (it has a 'tracks' key), with the metadata files as they were,
\* writes the index it read: the tracks are not nested again and every
\* section, 'tables' and 'multitracks' included, is kept.
C24_UpdateIndexKeepsNewFormat ==
    (/\ lastUpdate.ran
     /\ ~lastUpdate.changed
     /\ "tracks" \in DOMAIN lastUpdate.before)
    => /\ indexJson["tracks"] = lastUpdate.before["tracks"]
       /\ indexJson = lastUpdate.before

(***************************************************************************)
(* MultiTrack targets (SpecMix)                                            *)
(***************************************************************************)
\* the weights a get_target call works with, in tenths
WeightsUsed == IF mix.weights.none THEN Ones(mix.keys) ELSE mix.weights.items

Abs(n) == IF n < 0 THEN -n ELSE n

\* largest sample magnitude among the signals of the selected tracks
Peak ==
    CHOOSE m \in 0..1 :
        /\ \A i \in 1..Len(mix.keys), j \in 1..SignalLen :
               Abs(signals[mix.keys[i]][j]) <= m
        /\ \/ m = 0
           \/ \E i \in 1..Len(mix.keys), j \in 1..SignalLen :
                  Abs(signals[mix.keys[i]][j]) = m

C23_RandomTargetDraws ==
    mix.fn = "get_random_target" =>
        LET k == IF mix.n_tracks.none THEN Len(TrackKeys)
                 ELSE Smaller(mix.n_tracks.val, Len(TrackKeys))
        IN  /\ Len(mix.keys) = k
            /\ Len(mix.drawn) = k
            /\ k >= 1
            /\ \A i \in 1..k :
                   /\ \E t \in 1..Len(TrackKeys) : mix.keys[i] = TrackKeys[t]
                   /\ \A j \in 1..k : i # j => mix.keys[i] # mix.keys[j]
                   /\ mix.min_weight <= mix.drawn[i]
                   /\ mix.drawn[i] <= mix.max_weight

\* two of the three tracks drawn, with weights between 0.1 and 0.4
C23_Witness ==
    /\ mix.fn = "get_random_target"
    /\ mix.n_tracks = [none |-> FALSE, val |-> 2]
    /\ mix.min_weight = 1
    /\ mix.drawn = << 1, 4 >>

====
